---- MODULE Spec2Model ----
(***************************************************************************)
(* Model of the manga story pipeline of gen-anime-manga (backend/).        *)
(*                                                                         *)
(* One request to story_generator.generate_manga_story is followed from    *)
(* its arguments to its return value or to the exception it raises,        *)
(* through services/nlp_engine.generate_story (structured mode) and        *)
(* openai_generator.OpenAIGenerator (remote call, extreme local fallback)  *)
(* and story_generator._generate_enhanced_local_story (edgy builder).      *)
(* A second specification follows one panel description request, and the   *)
(* services called on their own (the functions of nlp_engine, the export   *)
(* functions, the HTTP handlers) have one each.                            *)
(*                                                                         *)
(* Python values are represented as follows.                               *)
(*   str            a sequence of one-character strings                    *)
(*   character name a str; IntName stands for a list element that is not   *)
(*                  a str (JSON number); literal names of the source are   *)
(*                  one-chunk sequences such as <<"Narrator">>             *)
(*   list           a sequence                                             *)
(*   dialogue line  [character |-> name]                                   *)
(*   scene          [scene_id, scene_type, has_description, chaos]         *)
(*   random.*       a nondeterministic choice over the possible draws      *)
(***************************************************************************)
EXTENDS Integers, Sequences, FiniteSets, TLC

VARIABLES
    pc,              \* control position inside generate_manga_story
    prompt,          \* the prompt's lower-cased word tokens
    in_characters,   \* the characters argument as passed: [type, val]
    unhinged,        \* the unhinged argument
    api_key,         \* whether OPENAI_API_KEY is configured
    characters,      \* generate_manga_story's local `characters`
    gs_characters,   \* generate_story's local `characters`
    remote,          \* what the remote chat-completion call did
    remote_story,    \* the JSON object parsed from a successful remote call
    num_scenes,      \* the drawn number of scenes of the running builder
    scenes,          \* the scenes list built so far / returned
    dialogue,        \* the dialogue list of the scene being appended
    speakers,        \* every DialogueLine.character of the scenes appended
    builder,         \* which generator built `scenes`
    client,          \* how generate_unhinged_story ended
    result,          \* how generate_manga_story ended
    error,           \* the exception that reached the caller
    story,           \* the returned dict: its keys and its characters entry
    panel_pc,        \* control position of the panel description request
    panel_entry,     \* the function the panel request entered through
    scene_description, \* the scene_description argument
    panel_remote,    \* what the remote call of generate_panel_description did
    panel_text,      \* the description the panel request ended with
    an_pc,           \* control position of the analyze_prompt call
    raw_prompt,      \* the prompt argument of analyze_prompt: [type, val]
    an_words,        \* analyze_prompt's local `words`
    analysis,        \* the dict analyze_prompt returned
    genre_arg,       \* the genre argument of generate_character_traits
    profile,         \* the dict generate_character_traits returned
    dl_args,         \* enhance_dialogue's arguments and the outcome of its draws
    dl_text,         \* the str enhance_dialogue returned
    description,     \* the description generate_story gave one scene, in pieces
    ex_pc,           \* control position of the export / panel saving calls
    ex_call,         \* the running or last call: [kind, title, path]
    ex_panels,       \* the entries of `panels` the loop has iterated over
    clock,           \* time.time() in whole seconds
    temp_dir,        \* outputs/temp: whether it exists, and its files
    zip_entries,     \* the entries of the archive the call wrote
    pdf,             \* the canvas of the call: title, pages, y_position, images
    returned,        \* the paths returned by the calls made so far
    http_pc,         \* control position of the HTTP request
    request,         \* the request: its route and the fields of its JSON body
    service,         \* what the generator or exporter the handler called did
    response,        \* the response: status code and the keys of its JSON body
    md_pc,           \* control position of the generate_story_metadata call
    md_scenes,       \* its scenes argument: the number of dialogue lines of each scene
    md_characters,   \* its characters argument
    metadata,        \* the dict it returned
    cbz_calls,       \* two overlapping create_manga_cbz calls: [pc, panels, zip] each
    project_files,   \* the metadata files of the output directory: [name, metadata]
    project_saved,   \* per project id, the metadata of the last save under it
    project_call     \* the last save / load call: [no, op, project_id, result]

storyVars == <<pc, prompt, in_characters, unhinged, api_key, characters,
               gs_characters, remote, remote_story, num_scenes, scenes,
               dialogue, speakers, builder, client, result, error, story>>
panelVars == <<panel_pc, panel_entry, scene_description, panel_remote, panel_text>>
analyzeVars == <<an_pc, raw_prompt, an_words, analysis, genre_arg, profile, dl_args, dl_text,
                 description>>
exportVars == <<ex_pc, ex_call, ex_panels, clock, temp_dir, zip_entries, pdf, returned>>
httpVars == <<http_pc, request, service, response>>
metadataVars == <<md_pc, md_scenes, md_characters, metadata>>
overlapVars == <<cbz_calls>>
projectVars == <<project_files, project_saved, project_call>>
utilVars == <<metadataVars, overlapVars, projectVars>>
vars == <<storyVars, panelVars, analyzeVars, exportVars, httpVars, utilVars>>

\* what a call leaves alone: the state of the other calls
nonStoryVars == <<panelVars, analyzeVars, exportVars, httpVars, utilVars>>
nonPanelVars == <<storyVars, analyzeVars, exportVars, httpVars, utilVars>>
nonAnalyzeVars == <<storyVars, panelVars, exportVars, httpVars, utilVars>>
nonExportVars == <<storyVars, panelVars, analyzeVars, httpVars, utilVars>>
nonHttpVars == <<storyVars, panelVars, analyzeVars, exportVars, utilVars>>
nonMetadataVars == <<storyVars, panelVars, analyzeVars, exportVars, httpVars,
                     overlapVars, projectVars>>
nonOverlapVars == <<storyVars, panelVars, analyzeVars, httpVars, metadataVars, projectVars,
                    ex_pc, ex_call, ex_panels, clock, zip_entries, pdf, returned>>
nonProjectVars == <<storyVars, panelVars, analyzeVars, exportVars, httpVars,
                    metadataVars, overlapVars>>

----------------------------------------------------------------------------
(* Bounds of the model *)

MaxStrLen == 2
MaxRoster == 2
MaxRemoteScenes == 2
MaxDescLen == 2

----------------------------------------------------------------------------
(* Sequences and strings *)

Range(s) == {s[k] : k \in DOMAIN s}

SeqsUpTo(S, n) == UNION {[1..m -> S] : m \in 0..n}

Char == {"a", ",", " "}

\* str.split(','): the parts between commas; an empty str gives [''].
RECURSIVE SplitComma(_)
SplitComma(s) ==
    IF \A k \in DOMAIN s : s[k] # ","
    THEN <<s>>
    ELSE LET k == CHOOSE k \in DOMAIN s :
                      s[k] = "," /\ \A j \in 1..(k-1) : s[j] # ","
         IN  <<SubSeq(s, 1, k-1)>> \o SplitComma(SubSeq(s, k+1, Len(s)))

RECURSIVE LStrip(_)
LStrip(s) == IF s # <<>> /\ Head(s) = " " THEN LStrip(Tail(s)) ELSE s

RECURSIVE RStrip(_)
RStrip(s) ==
    IF s # <<>> /\ s[Len(s)] = " " THEN RStrip(SubSeq(s, 1, Len(s)-1)) ELSE s

\* str.strip()
Strip(s) == RStrip(LStrip(s))

\* [c.strip() for c in characters.split(',')]
SplitAndStrip(s) ==
    LET parts == SplitComma(s) IN [k \in DOMAIN parts |-> Strip(parts[k])]

----------------------------------------------------------------------------
(* Inputs *)

\* A list element that is not a str (the JSON body may carry numbers).
IntName == <<"<int>">>

IsStr(name) == name # IntName

StrNames == {<<"a">>}

Strings == SeqsUpTo(Char, MaxStrLen)

Lists == SeqsUpTo(StrNames \cup {IntName}, MaxRoster)

\* The words of the prompts tried, with len(word) for each.
WordLength ==
    [w \in {"dragon", "war", "magic", "conflict", "tragedy", "furious", "grief",
            "hero", "story"} |->
        CASE w = "dragon" -> 6 [] w = "war" -> 3 [] w = "magic" -> 5
          [] w = "conflict" -> 8 [] w = "tragedy" -> 7 [] w = "furious" -> 7
          [] w = "grief" -> 5 [] w = "hero" -> 4 [] w = "story" -> 5]

Prompts == {<<"dragon">>, <<"war">>}

\* characters: Optional[List[str]]; a str is accepted and split.
TypedInput ==
    \/ in_characters.type \in {"none", "str"}
    \/ in_characters.type = "list" /\ \A n \in Range(in_characters.val) : IsStr(n)

----------------------------------------------------------------------------
(* StoryAnalyzer *)

GenreOrder ==
    <<"action", "romance", "mystery", "fantasy", "horror", "comedy", "drama", "sci-fi">>

genre_keywords == [g \in Range(GenreOrder) |->
    CASE g = "action"  -> {"fight", "battle", "combat", "war", "conflict", "violence", "chase", "escape"}
      [] g = "romance" -> {"love", "relationship", "heart", "kiss", "date", "romantic", "passion", "affection"}
      [] g = "mystery" -> {"mystery", "detective", "crime", "murder", "investigation", "clue", "secret", "hidden"}
      [] g = "fantasy" -> {"magic", "wizard", "dragon", "spell", "enchanted", "mystical", "supernatural", "realm"}
      [] g = "horror"  -> {"horror", "scary", "fear", "nightmare", "ghost", "demon", "terror", "haunted"}
      [] g = "comedy"  -> {"funny", "humor", "joke", "laugh", "comedy", "amusing", "hilarious", "witty"}
      [] g = "drama"   -> {"emotional", "tragedy", "serious", "dramatic", "intense", "conflict", "struggle"}
      [] g = "sci-fi"  -> {"space", "future", "technology", "robot", "alien", "cyberpunk", "dystopian", "utopian"}]

\* sum(1 for word in words if word in keywords)
Score(words, keywords) == Cardinality({k \in DOMAIN words : words[k] \in keywords})

EmotionOrder == <<"angry", "sad", "happy", "fearful", "surprised", "determined">>

emotion_keywords == [e \in Range(EmotionOrder) |->
    CASE e = "angry"      -> {"furious", "rage", "mad", "irritated", "annoyed", "hostile"}
      [] e = "sad"        -> {"depressed", "melancholy", "sorrowful", "grief", "despair", "heartbroken"}
      [] e = "happy"      -> {"joyful", "cheerful", "excited", "delighted", "euphoric", "content"}
      [] e = "fearful"    -> {"scared", "terrified", "anxious", "worried", "nervous", "panicked"}
      [] e = "surprised"  -> {"shocked", "amazed", "astonished", "stunned", "bewildered"}
      [] e = "determined" -> {"resolute", "focused", "committed", "driven", "persistent"}]

\* for key, keywords in table.items(): score = ...; if score > 0: scores[key] = score
\* The dict is the sequence of its items in insertion order.
RECURSIVE ScoreDict(_, _, _)
ScoreDict(order, table, words) ==
    IF order = <<>> THEN <<>>
    ELSE LET score == Score(words, table[Head(order)])
         IN  (IF score > 0 THEN <<[key |-> Head(order), score |-> score]>> ELSE <<>>)
             \o ScoreDict(Tail(order), table, words)

genre_scores(words) == ScoreDict(GenreOrder, genre_keywords, words)

emotion_scores(words) == ScoreDict(EmotionOrder, emotion_keywords, words)

RECURSIVE MaxKey_last(_, _)
MaxKey_last(items, best) ==
    IF items = <<>> THEN best.key
    ELSE MaxKey_last(Tail(items), IF Head(items).score >= best.score THEN Head(items) ELSE best)

\* max(scores.keys(), key=scores.get): the keys are visited in insertion order
\* and a key replaces the candidate only when its score is strictly greater.
RECURSIVE MaxKey(_, _)
MaxKey(items, best) ==
    IF items = <<>> THEN best.key
    ELSE MaxKey(Tail(items), IF Head(items).score > best.score THEN Head(items) ELSE best)

PrimaryGenre_action(words) ==
    LET scores == genre_scores(words)
    IN  IF scores = <<>> THEN "action" ELSE MaxKey(Tail(scores), Head(scores))

\* max(genre_scores.keys(), key=genre_scores.get) if genre_scores else 'drama'
PrimaryGenre(words) ==
    LET scores == genre_scores(words)
    IN  IF scores = <<>> THEN "drama" ELSE MaxKey(Tail(scores), Head(scores))

\* max(emotion_scores.keys(), key=emotion_scores.get) if emotion_scores else 'neutral'
PrimaryEmotion(words) ==
    LET scores == emotion_scores(words)
    IN  IF scores = <<>> THEN "neutral" ELSE MaxKey(Tail(scores), Head(scores))

RECURSIVE ThemeWords(_)
ThemeWords(words) ==
    IF words = <<>> THEN <<>>
    ELSE IF WordLength[Head(words)] > 4 /\ Head(words) \notin {"story", "about", "character"}
         THEN <<Head(words)>> \o ThemeWords(Tail(words))
         ELSE ThemeWords(Tail(words))

Themes_four(words) ==
    LET t == ThemeWords(words) IN SubSeq(t, 1, IF Len(t) < 4 THEN Len(t) ELSE 4)

\* themes[:5]
Themes(words) ==
    LET t == ThemeWords(words) IN SubSeq(t, 1, IF Len(t) < 5 THEN Len(t) ELSE 5)

genre_traits == [g \in Range(GenreOrder) |->
    CASE g = "action"  -> <<"brave", "strong", "determined", "skilled", "fearless">>
      [] g = "romance" -> <<"charming", "passionate", "caring", "romantic", "sensitive">>
      [] g = "mystery" -> <<"observant", "intelligent", "analytical", "suspicious", "methodical">>
      [] g = "fantasy" -> <<"magical", "wise", "mystical", "powerful", "ancient">>
      [] g = "horror"  -> <<"haunted", "troubled", "paranoid", "survivor", "cursed">>
      [] g = "comedy"  -> <<"funny", "witty", "clumsy", "optimistic", "cheerful">>
      [] g = "drama"   -> <<"complex", "emotional", "conflicted", "deep", "troubled">>
      [] g = "sci-fi"  -> <<"technological", "futuristic", "logical", "innovative", "alien">>]

\* genre_traits.get(genre, ['interesting', 'unique'])
TraitTable(genre) ==
    IF genre \in DOMAIN genre_traits THEN genre_traits[genre] ELSE <<"interesting", "unique">>

TraitSampleSize == 3

\* random.sample(population, k) raises ValueError when k > len(population).
SampleRaises(population, k) == k > Len(population)

----------------------------------------------------------------------------
(* Values shared by the generators *)

Line(name) == [character |-> name]

Lines(names) == [k \in DOMAIN names |-> Line(names[k])]

Scene(id, type) ==
    [scene_id |-> id, scene_type |-> type, has_description |-> TRUE, chaos |-> FALSE]

NoStory == [fields |-> {}, characters |-> <<>>]

\* generate_manga_story: characters = ['Protagonist', 'Antagonist']
DefaultRoster == <<<<"Protagonist">>, <<"Antagonist">>>>

\* generate_story: characters = ['Protagonist', 'Deuteragonist']
NlpDefaultRoster == <<<<"Protagonist">>, <<"Deuteragonist">>>>

Narrator == <<"Narrator">>

RandomVoice == <<"Random Voice">>

\* characters[1:] if len(characters) > 1 else [characters[0]]
SecondSpeakers(chars) == IF Len(chars) > 1 THEN Tail(chars) ELSE <<chars[1]>>

Speakers(d) == {d[k].character : k \in DOMAIN d}

----------------------------------------------------------------------------
(* The state of a call that is not made in the run at hand *)

StoryIdle ==
    /\ pc = "off"
    /\ prompt = <<>>
    /\ in_characters = [type |-> "none", val |-> <<>>]
    /\ unhinged = FALSE
    /\ api_key = FALSE
    /\ characters = <<>>
    /\ gs_characters = <<>>
    /\ remote = "not_called"
    /\ remote_story = NoStory
    /\ num_scenes = 0
    /\ scenes = <<>>
    /\ dialogue = <<>>
    /\ speakers = {}
    /\ builder = "none"
    /\ client = "not_called"
    /\ result = "running"
    /\ error = "none"
    /\ story = NoStory

PanelIdle ==
    /\ panel_pc = "off"
    /\ panel_entry = "none"
    /\ scene_description = <<>>
    /\ panel_remote = "not_called"
    /\ panel_text = <<>>

NoAnalysis ==
    [genres |-> <<>>, emotions |-> <<>>, primary_genre |-> "", primary_emotion |-> "",
     themes |-> <<>>, word_count |-> 0]

NoProfile == [traits |-> <<>>, primary_trait |-> ""]

NoDialogueCall ==
    [text |-> <<>>, emotion |-> "", character_traits |-> {},
     hits |-> [prefix |-> FALSE, witty |-> FALSE, serious |-> FALSE]]

NoDescription == [scene_type |-> "", text |-> <<>>]

\* no call of analyze_prompt and none of the other nlp_engine functions
NoAnalyzeCall ==
    /\ raw_prompt = [type |-> "none", val |-> <<>>]
    /\ an_words = <<>>
    /\ analysis = NoAnalysis
    /\ genre_arg = ""
    /\ profile = NoProfile
    /\ dl_args = NoDialogueCall
    /\ dl_text = <<>>
    /\ description = NoDescription

AnalyzeIdle == an_pc = "off" /\ NoAnalyzeCall

NoCall == [no |-> 0, kind |-> "none", title |-> <<>>, path |-> <<>>]

NoCanvas == [title |-> <<>>, page |-> 0, y_position |-> 0, images |-> <<>>]

NoTempDir == [exists |-> FALSE, files |-> {}]

ExportIdle ==
    /\ ex_pc = "off"
    /\ ex_call = NoCall
    /\ ex_panels = <<>>
    /\ clock = 0
    /\ temp_dir = NoTempDir
    /\ zip_entries = {}
    /\ pdf = NoCanvas
    /\ returned = <<>>

NoResponse == [status |-> 0, keys |-> {}]

HttpIdle ==
    /\ http_pc = "off"
    /\ request = [route |-> "none", json |-> FALSE, fields |-> {}]
    /\ service = "not_called"
    /\ response = NoResponse

NoMetadata == [generation_method |-> "none"]

MetadataIdle ==
    /\ md_pc = "off"
    /\ md_scenes = <<>>
    /\ md_characters = <<>>
    /\ metadata = NoMetadata

NoCbzCall == [pc |-> "off", panels |-> <<>>, listed |-> {}, zip |-> {}]

OverlapIdle == cbz_calls = [p \in {1, 2} |-> NoCbzCall]

NoProjectCall == [no |-> 0, op |-> "none", project_id |-> <<>>, result |-> <<>>]

ProjectIdle ==
    /\ project_files = {}
    /\ project_saved = <<>>
    /\ project_call = NoProjectCall

UtilIdle == MetadataIdle /\ OverlapIdle /\ ProjectIdle

----------------------------------------------------------------------------
(* generate_manga_story: arguments, normalisation, routing *)

Init ==
    /\ pc = "start"
    /\ prompt \in Prompts
    /\ \/ in_characters = [type |-> "none", val |-> <<>>]
       \/ \E s \in Strings : in_characters = [type |-> "str", val |-> s]
       \/ \E l \in Lists : in_characters = [type |-> "list", val |-> l]
    /\ unhinged \in BOOLEAN
    /\ api_key \in BOOLEAN
    /\ characters = <<>>
    /\ gs_characters = <<>>
    /\ remote = "not_called"
    /\ remote_story = NoStory
    /\ num_scenes = 0
    /\ scenes = <<>>
    /\ dialogue = <<>>
    /\ speakers = {}
    /\ builder = "none"
    /\ client = "not_called"
    /\ result = "running"
    /\ error = "none"
    /\ story = NoStory
    /\ panel_pc = "off"
    /\ panel_entry = "none"
    /\ scene_description = <<>>
    /\ panel_remote = "not_called"
    /\ panel_text = <<>>
    /\ AnalyzeIdle
    /\ ExportIdle
    /\ HttpIdle
    /\ UtilIdle

\* if characters is None: ...; if isinstance(characters, str): split and strip
NormalizeCharacters(arg) ==
    IF arg.type = "none" THEN DefaultRoster
    ELSE IF arg.type = "str" THEN SplitAndStrip(arg.val)
    ELSE arg.val

Normalize ==
    /\ pc = "start"
    /\ characters' = NormalizeCharacters(in_characters)
    /\ pc' = "route"
    /\ UNCHANGED <<prompt, in_characters, unhinged, api_key, gs_characters, remote,
                   remote_story, num_scenes, scenes, dialogue, speakers, builder,
                   client, result, error, story>>
    /\ UNCHANGED nonStoryVars

\* EnhancedStoryGenerator.__init__: OpenAIGenerator() is constructed whether or
\* not a key is configured, so generator.openai_generator is never None.
OpenAIGeneratorAvailable == TRUE

Route ==
    /\ pc = "route"
    /\ pc' = IF unhinged
             THEN (IF OpenAIGeneratorAvailable THEN "client" ELSE "edgy")
             ELSE "nlp"
    /\ client' = IF unhinged /\ OpenAIGeneratorAvailable THEN "running" ELSE client
    /\ UNCHANGED <<prompt, in_characters, unhinged, api_key, characters, gs_characters,
                   remote, remote_story, num_scenes, scenes, dialogue, speakers,
                   builder, result, error, story>>
    /\ UNCHANGED nonStoryVars

\* An exception leaves generate_manga_story.
Raise(exc) ==
    /\ pc' = "done"
    /\ result' = "raised"
    /\ error' = exc

\* generate_manga_story returns the dict `s`.
Return(s) ==
    /\ pc' = "done"
    /\ result' = "returned"
    /\ error' = "none"
    /\ story' = s

----------------------------------------------------------------------------
(* Structured mode: nlp_engine.generate_story and                          *)
(* story_generator._generate_enhanced_story_with_nlp                       *)

\* Mutant of StructuredSceneCounts: the upper limit of the draw off by one.
StructuredSceneCounts_wide == 8..13

\* random.randint(8, 12)
StructuredSceneCounts == 8..12

\* random.randint(2, 4)
StructuredDialogueCounts == 2..4

\* if not characters: default roster (a str is split, but arrives split already)
NlpRoster(chars) == IF chars = <<>> THEN NlpDefaultRoster ELSE chars

SceneType_late(i, n) ==
    IF i = 0 THEN "opening"
    ELSE IF i = n - 1 THEN "resolution"
    ELSE IF 10 * i < 9 * n THEN "rising"
    ELSE "climax"

SceneType_inclusive(i, n) ==
    IF i = 0 THEN "opening"
    ELSE IF i = n - 1 THEN "resolution"
    ELSE IF 10 * i <= 7 * n THEN "rising"
    ELSE "climax"

\* 'opening' if i == 0 else 'resolution' if i == num_scenes - 1
\*  else 'rising' if i < num_scenes * 0.7 else 'climax'
SceneType(i, n) ==
    IF i = 0 THEN "opening"
    ELSE IF i = n - 1 THEN "resolution"
    ELSE IF 10 * i < 7 * n THEN "rising"
    ELSE "climax"

\* for j in range(num_dialogues): speaker = random.choice(characters)
StructuredDialogues(chars) ==
    UNION {[1..m -> Range(chars)] : m \in StructuredDialogueCounts}

\* The scene appended in iteration i (0-based): scene_id = i + 1.
StructuredScene(i, n) == Scene(i + 1, SceneType(i, n))

NlpSetup ==
    /\ pc = "nlp"
    /\ LET genre == PrimaryGenre(prompt)
           roster == NlpRoster(characters)
       IN  IF SampleRaises(TraitTable(genre), TraitSampleSize)
           THEN /\ Raise("ValueError")
                /\ UNCHANGED <<gs_characters, num_scenes, builder>>
           ELSE /\ gs_characters' = roster
                /\ num_scenes' \in StructuredSceneCounts
                /\ builder' = "structured"
                /\ pc' = "nlp_loop"
                /\ UNCHANGED <<result, error>>
    /\ UNCHANGED <<prompt, in_characters, unhinged, api_key, characters, remote,
                   remote_story, scenes, dialogue, speakers, client, story>>
    /\ UNCHANGED nonStoryVars

NlpBuildScene ==
    /\ pc = "nlp_loop"
    /\ Len(scenes) < num_scenes
    /\ \E d \in StructuredDialogues(gs_characters) : dialogue' = Lines(d)
    /\ pc' = "nlp_built"
    /\ UNCHANGED <<prompt, in_characters, unhinged, api_key, characters, gs_characters,
                   remote, remote_story, num_scenes, scenes, speakers, builder,
                   client, result, error, story>>
    /\ UNCHANGED nonStoryVars

NlpAppendScene ==
    /\ pc = "nlp_built"
    /\ scenes' = Append(scenes, StructuredScene(Len(scenes), num_scenes))
    /\ speakers' = speakers \cup Speakers(dialogue)
    /\ pc' = "nlp_loop"
    /\ UNCHANGED <<prompt, in_characters, unhinged, api_key, characters, gs_characters,
                   remote, remote_story, num_scenes, dialogue, builder, client,
                   result, error, story>>
    /\ UNCHANGED nonStoryVars

StructuredFields ==
    {"title", "summary", "genre", "themes", "characters", "scenes", "metadata"}

\* title_subject = themes[0] if themes else characters[0] if characters else
\* 'Adventure'; title_subject.title() needs a str.
TitleRaises(words, chars) ==
    Themes(words) = <<>> /\ chars # <<>> /\ ~IsStr(chars[1])

\* The returned dict carries generate_manga_story's own `characters`.
StructuredStory(chars) == [fields |-> StructuredFields, characters |-> chars]

NlpReturn ==
    /\ pc = "nlp_loop"
    /\ Len(scenes) >= num_scenes
    /\ IF TitleRaises(prompt, characters)
       THEN Raise("AttributeError") /\ UNCHANGED story
       ELSE Return(StructuredStory(characters))
    /\ UNCHANGED <<prompt, in_characters, unhinged, api_key, characters, gs_characters,
                   remote, remote_story, num_scenes, scenes, dialogue, speakers,
                   builder, client>>
    /\ UNCHANGED nonStoryVars

----------------------------------------------------------------------------
(* OpenAIGenerator.generate_unhinged_story: the remote call *)

\* What requests.post .. json.loads can do inside the try block.
RemoteFailures ==
    {"network_error",       \* requests.post raises ConnectionError
     "timeout",             \* requests.post raises Timeout after 30 s
     "http_error",          \* response.raise_for_status() raises on non-2xx
     "body_not_json",       \* response.json() raises
     "content_not_json",    \* json.loads(content) raises
     "content_not_object"}  \* content is JSON but no object: story.get raises

RemoteKeys == {"title", "summary", "scenes"}

RemoteSceneIds == 1..(MaxRemoteScenes + 1)

RemoteScenes ==
    SeqsUpTo([scene_id : RemoteSceneIds, scene_type : {"untyped"},
              has_description : BOOLEAN, chaos : {FALSE}], MaxRemoteScenes)

\* The JSON objects the remote model may answer with: any subset of the keys
\* asked for, scenes numbered as the remote model pleases.
RemoteObjects ==
    {o \in [fields : SUBSET RemoteKeys, scenes : RemoteScenes] :
        "scenes" \in o.fields \/ o.scenes = <<>>}

\* ', '.join(characters) in the user message, before the try block
JoinRaises(chars) == \E k \in DOMAIN chars : ~IsStr(chars[k])

ClientCall ==
    /\ pc = "client"
    /\ IF ~api_key
       THEN \* if not self.api_key: return self._generate_fallback_unhinged_story
            pc' = "fallback" /\ UNCHANGED client
       ELSE IF JoinRaises(characters)
            THEN \* TypeError leaves generate_unhinged_story; the caller's
                 \* except clause runs the edgy builder
                 pc' = "edgy" /\ client' = "raised"
            ELSE pc' = "remote" /\ UNCHANGED client
    /\ UNCHANGED <<prompt, in_characters, unhinged, api_key, characters, gs_characters,
                   remote, remote_story, num_scenes, scenes, dialogue, speakers,
                   builder, result, error, story>>
    /\ UNCHANGED nonStoryVars

RemoteFails ==
    /\ pc = "remote"
    /\ remote' \in RemoteFailures
    /\ pc' = "except"
    /\ UNCHANGED <<prompt, in_characters, unhinged, api_key, characters, gs_characters,
                   remote_story, num_scenes, scenes, dialogue, speakers, builder,
                   client, result, error, story>>
    /\ UNCHANGED nonStoryVars

RemoteAnswers ==
    /\ pc = "remote"
    /\ remote' = "object"
    /\ \E o \in RemoteObjects :
          /\ remote_story' = [fields |-> o.fields, characters |-> <<>>]
          /\ scenes' = o.scenes
    /\ pc' = "chaos"
    /\ UNCHANGED <<prompt, in_characters, unhinged, api_key, characters, gs_characters,
                   num_scenes, dialogue, speakers, builder, client, result, error, story>>
    /\ UNCHANGED nonStoryVars

\* _enhance_story_chaos: for scene in story.get('scenes', []):
\*     if random.random() < 0.3: scene['description'] += chaos
\* The scenes in `hit` draw below 0.3.
ChaosRaises(sc, hit) == \E k \in hit : ~sc[k].has_description

ChaosApplied(sc, hit) ==
    [k \in DOMAIN sc |-> IF k \in hit THEN [sc[k] EXCEPT !.chaos = TRUE] ELSE sc[k]]

\* return story_json: the parsed object is returned as it is.
RemoteStory(o) == o

EnhanceStoryChaos ==
    /\ pc = "chaos"
    /\ \E hit \in SUBSET (DOMAIN scenes) :
          IF ChaosRaises(scenes, hit)
          THEN \* KeyError: caught by the except clause of the try block
               /\ remote' = "chaos_key_error"
               /\ pc' = "except"
               /\ UNCHANGED <<scenes, builder, client, result, error, story>>
          ELSE /\ scenes' = ChaosApplied(scenes, hit)
               /\ builder' = "remote"
               /\ client' = "returned_remote"
               /\ Return(RemoteStory(remote_story))
               /\ UNCHANGED remote
    /\ UNCHANGED <<prompt, in_characters, unhinged, api_key, characters, gs_characters,
                   remote_story, num_scenes, dialogue, speakers>>
    /\ UNCHANGED nonStoryVars

\* except Exception as e: print(...); return self._generate_fallback_unhinged_story
ExceptFallback ==
    /\ pc = "except"
    /\ remote' = "failed"
    /\ remote_story' = NoStory
    /\ scenes' = <<>>
    /\ pc' = "fallback"
    /\ UNCHANGED <<prompt, in_characters, unhinged, api_key, characters, gs_characters,
                   num_scenes, dialogue, speakers, builder, client, result, error, story>>
    /\ UNCHANGED nonStoryVars

----------------------------------------------------------------------------
(* OpenAIGenerator._generate_fallback_unhinged_story: the extreme fallback *)

\* Mutant of FallbackSceneCounts: the upper limit of the draw off by one.
FallbackSceneCounts_wide == 12..16

\* random.randint(12, 15)
FallbackSceneCounts == 12..15

\* The speakers of the two fixed lines of scene i (0-based) of n.
FallbackExchange(chars, i, n) ==
    LET first == chars[1]
        second == Range(SecondSpeakers(chars))
    IN  IF i = 0 THEN {<<first, r>> : r \in second}
        ELSE IF i = n - 1 THEN {<<first, Narrator>>}
        ELSE    {<<first, r>> : r \in second}              \* violence, betrayal
           \cup {<<first, first>>}                          \* psychological_break
           \cup {<<first, Narrator>>}                       \* meta_commentary
           \cup {<<c, RandomVoice>> : c \in Range(chars)}   \* chaos

\* if random.random() > 0.4: dialogues.append(random.choice(characters) ...)
FallbackDialogues(chars, i, n) ==
    LET base == FallbackExchange(chars, i, n)
    IN  base \cup {Append(d, c) : d \in base, c \in Range(chars)}

FallbackFields == {"title", "summary", "scenes"}

FallbackStory == [fields |-> FallbackFields, characters |-> <<>>]

\* Mutant of FallbackRaises: the second speaker read as characters[1]
\* without the length guard.
FallbackRaises_unguarded(chars) == Len(chars) < 2

\* summary: characters[0] raises IndexError on an empty list
FallbackRaises(chars) == chars = <<>>

FallbackSetup ==
    /\ pc = "fallback"
    /\ IF FallbackRaises(characters)
       THEN \* characters[0] raises IndexError, which leaves
            \* generate_unhinged_story; the caller's except clause runs the
            \* edgy builder
            /\ pc' = "edgy"
            /\ client' = "raised"
            /\ UNCHANGED <<num_scenes, builder>>
       ELSE /\ num_scenes' \in FallbackSceneCounts
            /\ builder' = "fallback"
            /\ pc' = "fallback_loop"
            /\ UNCHANGED client
    /\ UNCHANGED <<prompt, in_characters, unhinged, api_key, characters, gs_characters,
                   remote, remote_story, scenes, dialogue, speakers, result, error,
                   story>>
    /\ UNCHANGED nonStoryVars

FallbackBuildScene ==
    /\ pc = "fallback_loop"
    /\ Len(scenes) < num_scenes
    /\ \E d \in FallbackDialogues(characters, Len(scenes), num_scenes) :
          dialogue' = Lines(d)
    /\ pc' = "fallback_built"
    /\ UNCHANGED <<prompt, in_characters, unhinged, api_key, characters, gs_characters,
                   remote, remote_story, num_scenes, scenes, speakers, builder,
                   client, result, error, story>>
    /\ UNCHANGED nonStoryVars

FallbackAppendScene ==
    /\ pc = "fallback_built"
    /\ scenes' = Append(scenes, Scene(Len(scenes) + 1, "untyped"))
    /\ speakers' = speakers \cup Speakers(dialogue)
    /\ pc' = "fallback_loop"
    /\ UNCHANGED <<prompt, in_characters, unhinged, api_key, characters, gs_characters,
                   remote, remote_story, num_scenes, dialogue, builder, client,
                   result, error, story>>
    /\ UNCHANGED nonStoryVars

FallbackReturn ==
    /\ pc = "fallback_loop"
    /\ Len(scenes) >= num_scenes
    /\ client' = "returned_fallback"
    /\ Return(FallbackStory)
    /\ UNCHANGED <<prompt, in_characters, unhinged, api_key, characters, gs_characters,
                   remote, remote_story, num_scenes, scenes, dialogue, speakers,
                   builder>>
    /\ UNCHANGED nonStoryVars

----------------------------------------------------------------------------
(* story_generator._generate_enhanced_local_story(unhinged=True): the edgy *)
(* builder, run by generate_manga_story's except clause                    *)

\* random.randint(10, 15)
EdgySceneCounts == 10..15

EdgyExchange(chars) == {<<chars[1], r>> : r \in Range(SecondSpeakers(chars))}

\* Middle scenes: if random.random() > 0.6: a third line by random.choice(characters)
EdgyDialogues(chars, i, n) ==
    LET base == EdgyExchange(chars)
    IN  IF i = 0 \/ i = n - 1 THEN base
        ELSE base \cup {Append(d, c) : d \in base, c \in Range(chars)}

EdgyFields == {"title", "summary", "scenes", "metadata"}

EdgyStory == [fields |-> EdgyFields, characters |-> <<>>]

EdgySetup ==
    /\ pc = "edgy"
    /\ IF characters = <<>>
       THEN \* summary: characters[0] raises IndexError to the caller
            /\ \E n \in EdgySceneCounts : num_scenes' = n
            /\ Raise("IndexError")
            /\ UNCHANGED builder
       ELSE /\ num_scenes' \in EdgySceneCounts
            /\ builder' = "edgy"
            /\ pc' = "edgy_loop"
            /\ UNCHANGED <<result, error>>
    /\ UNCHANGED <<prompt, in_characters, unhinged, api_key, characters, gs_characters,
                   remote, remote_story, scenes, dialogue, speakers, client, story>>
    /\ UNCHANGED nonStoryVars

EdgyBuildScene ==
    /\ pc = "edgy_loop"
    /\ Len(scenes) < num_scenes
    /\ \E d \in EdgyDialogues(characters, Len(scenes), num_scenes) :
          dialogue' = Lines(d)
    /\ pc' = "edgy_built"
    /\ UNCHANGED <<prompt, in_characters, unhinged, api_key, characters, gs_characters,
                   remote, remote_story, num_scenes, scenes, speakers, builder,
                   client, result, error, story>>
    /\ UNCHANGED nonStoryVars

EdgyAppendScene ==
    /\ pc = "edgy_built"
    /\ scenes' = Append(scenes, Scene(Len(scenes) + 1, "untyped"))
    /\ speakers' = speakers \cup Speakers(dialogue)
    /\ pc' = "edgy_loop"
    /\ UNCHANGED <<prompt, in_characters, unhinged, api_key, characters, gs_characters,
                   remote, remote_story, num_scenes, dialogue, builder, client,
                   result, error, story>>
    /\ UNCHANGED nonStoryVars

EdgyReturn ==
    /\ pc = "edgy_loop"
    /\ Len(scenes) >= num_scenes
    /\ Return(EdgyStory)
    /\ UNCHANGED <<prompt, in_characters, unhinged, api_key, characters, gs_characters,
                   remote, remote_story, num_scenes, scenes, dialogue, speakers,
                   builder, client>>
    /\ UNCHANGED nonStoryVars

----------------------------------------------------------------------------
(* The story request *)

Next ==
    \/ Normalize
    \/ Route
    \/ NlpSetup
    \/ NlpBuildScene
    \/ NlpAppendScene
    \/ NlpReturn
    \/ ClientCall
    \/ RemoteFails
    \/ RemoteAnswers
    \/ EnhanceStoryChaos
    \/ ExceptFallback
    \/ FallbackSetup
    \/ FallbackBuildScene
    \/ FallbackAppendScene
    \/ FallbackReturn
    \/ EdgySetup
    \/ EdgyBuildScene
    \/ EdgyAppendScene
    \/ EdgyReturn

Spec == Init /\ [][Next]_vars

----------------------------------------------------------------------------
(* The panel description request: OpenAIGenerator.generate_panel_description *)
(* called directly, or by panel_generator.generate_manga_panel               *)

Descriptions == SeqsUpTo(Char, MaxDescLen)

\* What the remote model may answer: any text.
RemoteTexts == SeqsUpTo(Char, MaxDescLen)

PanelFailures ==
    {"network_error", "timeout", "http_error", "body_not_json", "no_choices"}

\* The literal the fallback description starts with.
PanelPrefix == <<"A dark, twisted manga panel showing: ">>

\* Mutant of FallbackDescription: the description passed through unchanged.
FallbackDescription_passthrough(desc) == desc

\* return f"A dark, twisted manga panel showing: {scene_description}"
FallbackDescription(desc) == PanelPrefix \o desc

\* def generate_panel_description(self, scene_description, dialogue, style="dark")
DescribeParams == <<"scene_description", "dialogue", "style">>

DescribeRequired == {"scene_description", "dialogue"}

\* Python's argument binding: TypeError on an unexpected keyword or on a
\* required parameter left unbound.
CallRaisesTypeError(params, required, positional, keywords) ==
    LET bound == {params[k] : k \in 1..positional} \cup keywords
    IN  \/ positional > Len(params)
        \/ ~(keywords \subseteq Range(params))
        \/ ~(required \subseteq bound)

\* openai_gen.generate_panel_description(scene_description, unhinged=unhinged)
PanelCallPositional == 1

PanelCallKeywords == {"unhinged"}

PanelInit ==
    /\ pc = "off"
    /\ prompt = <<>>
    /\ in_characters = [type |-> "none", val |-> <<>>]
    /\ unhinged = FALSE
    /\ api_key \in BOOLEAN
    /\ characters = <<>>
    /\ gs_characters = <<>>
    /\ remote = "not_called"
    /\ remote_story = NoStory
    /\ num_scenes = 0
    /\ scenes = <<>>
    /\ dialogue = <<>>
    /\ speakers = {}
    /\ builder = "none"
    /\ client = "not_called"
    /\ result = "running"
    /\ error = "none"
    /\ story = NoStory
    /\ panel_entry \in {"generate_panel_description", "generate_manga_panel"}
    /\ panel_pc = IF panel_entry = "generate_manga_panel" THEN "panel" ELSE "describe"
    /\ scene_description \in Descriptions
    /\ panel_remote = "not_called"
    /\ panel_text = <<>>
    /\ AnalyzeIdle
    /\ ExportIdle
    /\ HttpIdle
    /\ UtilIdle

\* generate_manga_panel, lines 12-19: on any exception of the enhancement the
\* original description is kept.
GenerateMangaPanel ==
    /\ panel_pc = "panel"
    /\ IF CallRaisesTypeError(DescribeParams, DescribeRequired,
                              PanelCallPositional, PanelCallKeywords)
       THEN /\ panel_text' = scene_description
            /\ panel_pc' = "done"
       ELSE /\ panel_pc' = "describe"
            /\ UNCHANGED panel_text
    /\ UNCHANGED <<panel_entry, scene_description, panel_remote>>
    /\ UNCHANGED nonPanelVars

\* if not self.api_key: return the fallback description
DescribeWithoutKey ==
    /\ panel_pc = "describe"
    /\ ~api_key
    /\ panel_text' = FallbackDescription(scene_description)
    /\ panel_pc' = "done"
    /\ UNCHANGED <<panel_entry, scene_description, panel_remote>>
    /\ UNCHANGED nonPanelVars

\* except Exception: return the fallback description
DescribeRemoteFails ==
    /\ panel_pc = "describe"
    /\ api_key
    /\ panel_remote' \in PanelFailures
    /\ panel_text' = FallbackDescription(scene_description)
    /\ panel_pc' = "done"
    /\ UNCHANGED <<panel_entry, scene_description>>
    /\ UNCHANGED nonPanelVars

\* return result["choices"][0]["message"]["content"]
DescribeRemoteAnswers ==
    /\ panel_pc = "describe"
    /\ api_key
    /\ panel_remote' = "answered"
    /\ panel_text' \in RemoteTexts
    /\ panel_pc' = "done"
    /\ UNCHANGED <<panel_entry, scene_description>>
    /\ UNCHANGED nonPanelVars

PanelNext ==
    \/ GenerateMangaPanel
    \/ DescribeWithoutKey
    \/ DescribeRemoteFails
    \/ DescribeRemoteAnswers

SpecPanel == PanelInit /\ [][PanelNext]_vars

----------------------------------------------------------------------------
(* The functions of services/nlp_engine.py called on their own:            *)
(* analyze_prompt, generate_character_traits, enhance_dialogue             *)

\* A str argument is the sequence of its maximal runs: runs of word characters
\* (\w) and runs of other characters alternate.
MaxChunks == 5

SeparatorRuns == {" ", "! "}

WordRuns == {"Dragon", "war", "magic", "conflict", "tragedy", "furious", "grief",
             "hero", "story"}

IsWordRun(c) == c \in WordRuns

\* the strs of n runs that begin with a word run (word) or with a separator run
RECURSIVE Runs(_, _)
Runs(n, word) ==
    IF n = 0 THEN {<<>>}
    ELSE {<<c>> \o t : c \in (IF word THEN WordRuns ELSE SeparatorRuns),
                       t \in Runs(n - 1, ~word)}

PromptStrs == UNION {Runs(n, word) : n \in 0..MaxChunks, word \in BOOLEAN}

\* str.lower() of a run
Lower(c) == IF c = "Dragon" THEN "dragon" ELSE c

\* re.findall(r'\b\w+\b', prompt.lower())
RECURSIVE Tokenize(_)
Tokenize(s) ==
    IF s = <<>> THEN <<>>
    ELSE (IF IsWordRun(Head(s)) THEN <<Lower(Head(s))>> ELSE <<>>) \o Tokenize(Tail(s))

\* random.sample(population, k): k elements at pairwise distinct positions
Sample(population, k) ==
    {[j \in 1..k |-> population[f[j]]] :
        f \in {g \in [1..k -> DOMAIN population] :
                  \A a, b \in 1..k : a # b => g[a] # g[b]}}

\* A dialogue str is the sequence of its pieces, each "!" a piece of its own.
emotion_modifiers == [e \in Range(EmotionOrder) |->
    CASE e = "angry"      -> {<<"Damn it", "!">>, <<"This is ridiculous", "!">>,
                              <<"I can't believe this", "!">>}
      [] e = "sad"        -> {<<"*sighs*">>, <<"I just... I don't know anymore.">>,
                              <<"Why does this always happen?">>}
      [] e = "happy"      -> {<<"This is amazing", "!">>, <<"I can't contain my excitement", "!">>,
                              <<"Everything's perfect", "!">>}
      [] e = "fearful"    -> {<<"I'm scared...">>, <<"What if something goes wrong?">>,
                              <<"I have a bad feeling about this.">>}
      [] e = "surprised"  -> {<<"What?", "!">>, <<"I can't believe it", "!">>,
                              <<"That's impossible", "!">>}
      [] e = "determined" -> {<<"I won't give up", "!">>, <<"We can do this", "!">>,
                              <<"Nothing will stop me", "!">>}]

\* text.replace('!', '.')
ReplaceBang(text) == [k \in DOMAIN text |-> IF text[k] = "!" THEN "." ELSE text[k]]

\* the arguments of enhance_dialogue; hits says, for each of its three
\* random.random() < p tests, how the draw of that test falls
DialogueCalls ==
    [text : {<<"Hi">>, <<"Stop", "!">>},
     emotion : Range(EmotionOrder) \cup {"neutral"},
     character_traits : SUBSET {"witty", "serious"},
     hits : [prefix : BOOLEAN, witty : BOOLEAN, serious : BOOLEAN]]

\* longer strs: up to MaxThemeWords words of a small vocabulary, one blank
\* between them
MaxThemeWords == 7

LongPromptStrs ==
    LET joined[n \in 1..MaxThemeWords] ==
            IF n = 1 THEN {<<w>> : w \in {"Dragon", "magic", "story"}}
            ELSE {<<w, " ">> \o t : w \in {"Dragon", "magic", "story"},
                                    t \in joined[n - 1]}
    IN  UNION {joined[n] : n \in 4..MaxThemeWords}

AnalyzeInit ==
    /\ StoryIdle
    /\ PanelIdle
    /\ ExportIdle
    /\ HttpIdle
    /\ UtilIdle
    /\ an_words = <<>>
    /\ analysis = NoAnalysis
    /\ profile = NoProfile
    /\ dl_text = <<>>
    /\ description = NoDescription
    /\ \/ /\ an_pc = "call"
          /\ \/ raw_prompt = [type |-> "none", val |-> <<>>]
             \/ \E s \in PromptStrs \cup LongPromptStrs :
                    raw_prompt = [type |-> "str", val |-> s]
          /\ genre_arg = ""
          /\ dl_args = NoDialogueCall
       \/ /\ an_pc = "traits"
          /\ raw_prompt = [type |-> "none", val |-> <<>>]
          /\ genre_arg \in Range(GenreOrder) \cup {"western"}
          /\ dl_args = NoDialogueCall
       \/ /\ an_pc = "dialogue"
          /\ raw_prompt = [type |-> "none", val |-> <<>>]
          /\ genre_arg = ""
          /\ dl_args \in DialogueCalls

\* generate_character_traits, line 111: random.sample raises ValueError
TraitsRaise ==
    /\ an_pc = "traits"
    /\ SampleRaises(TraitTable(genre_arg), TraitSampleSize)
    /\ an_pc' = "raised"
    /\ UNCHANGED <<raw_prompt, an_words, analysis, genre_arg, profile, dl_args, dl_text,
                   description>>
    /\ UNCHANGED nonAnalyzeVars

\* generate_character_traits, lines 111-117
TraitsReturn ==
    /\ an_pc = "traits"
    /\ ~SampleRaises(TraitTable(genre_arg), TraitSampleSize)
    /\ \E traits \in Sample(TraitTable(genre_arg), TraitSampleSize) :
        profile' = [traits |-> traits,
                    primary_trait |-> IF traits # <<>> THEN traits[1] ELSE "mysterious"]
    /\ an_pc' = "done"
    /\ UNCHANGED <<raw_prompt, an_words, analysis, genre_arg, dl_args, dl_text, description>>
    /\ UNCHANGED nonAnalyzeVars

\* enhance_dialogue, lines 141-152
EnhanceDialogue ==
    /\ an_pc = "dialogue"
    /\ \E prefix \in (IF dl_args.hits.prefix /\ dl_args.emotion \in DOMAIN emotion_modifiers
                       THEN emotion_modifiers[dl_args.emotion] ELSE {<<>>}) :
        LET text == IF prefix = <<>> THEN dl_args.text
                    ELSE prefix \o <<" ">> \o dl_args.text
        IN  dl_text' =
                IF "witty" \in dl_args.character_traits /\ dl_args.hits.witty
                THEN text \o <<" *smirks*">>
                ELSE IF "serious" \in dl_args.character_traits /\ dl_args.hits.serious
                     THEN ReplaceBang(text)
                     ELSE text
    /\ an_pc' = "done"
    /\ UNCHANGED <<raw_prompt, an_words, analysis, genre_arg, profile, dl_args, description>>
    /\ UNCHANGED nonAnalyzeVars

\* prompt.lower() on an argument that is not a str: AttributeError
AnalyzeRaises ==
    /\ an_pc = "call"
    /\ raw_prompt.type # "str"
    /\ an_pc' = "raised"
    /\ UNCHANGED <<raw_prompt, an_words, analysis>>
    /\ UNCHANGED <<genre_arg, profile, dl_args, dl_text, description>>
    /\ UNCHANGED nonAnalyzeVars

\* prompt_lower = prompt.lower(); words = re.findall(...)
AnalyzeTokenize ==
    /\ an_pc = "call"
    /\ raw_prompt.type = "str"
    /\ an_words' = Tokenize(raw_prompt.val)
    /\ an_pc' = "words"
    /\ UNCHANGED <<raw_prompt, analysis>>
    /\ UNCHANGED <<genre_arg, profile, dl_args, dl_text, description>>
    /\ UNCHANGED nonAnalyzeVars

\* the scores, the primary genre and emotion, the themes and the returned dict
AnalyzeReturn ==
    /\ an_pc = "words"
    /\ analysis' = [genres          |-> genre_scores(an_words),
                    emotions        |-> emotion_scores(an_words),
                    primary_genre   |-> PrimaryGenre(an_words),
                    primary_emotion |-> PrimaryEmotion(an_words),
                    themes          |-> Themes(an_words),
                    word_count      |-> Len(an_words)]
    /\ an_pc' = "done"
    /\ UNCHANGED <<raw_prompt, an_words>>
    /\ UNCHANGED <<genre_arg, profile, dl_args, dl_text, description>>
    /\ UNCHANGED nonAnalyzeVars

\* generate_story, lines 190-215
story_templates ==
    [g \in {"action", "romance", "mystery", "fantasy"} |->
        [t \in {"opening", "rising", "climax", "resolution"} |->
            CASE g = "action" ->
                   (CASE t = "opening" -> "A tense situation unfolds"
                      [] t = "rising" -> "The conflict escalates dramatically"
                      [] t = "climax" -> "An intense battle determines the outcome"
                      [] t = "resolution" -> "The dust settles and consequences are revealed")
              [] g = "romance" ->
                   (CASE t = "opening" -> "Two characters meet under interesting circumstances"
                      [] t = "rising" -> "Their relationship develops with complications"
                      [] t = "climax" -> "A moment of truth tests their bond"
                      [] t = "resolution" -> "Their feelings are finally resolved")
              [] g = "mystery" ->
                   (CASE t = "opening" -> "A puzzling event occurs"
                      [] t = "rising" -> "Clues are discovered and suspects emerge"
                      [] t = "climax" -> "The truth is dramatically revealed"
                      [] t = "resolution" -> "Justice is served and mysteries are solved")
              [] g = "fantasy" ->
                   (CASE t = "opening" -> "A magical world is introduced"
                      [] t = "rising" -> "Ancient powers awaken and quests begin"
                      [] t = "climax" -> "Epic magical confrontation"
                      [] t = "resolution" -> "The realm's fate is decided")]]

StoryTemplate_romance(genre) ==
    IF genre \in DOMAIN story_templates THEN story_templates[genre]
    ELSE story_templates["romance"]

\* story_templates.get(genre, story_templates['action'])
StoryTemplate(genre) ==
    IF genre \in DOMAIN story_templates THEN story_templates[genre]
    ELSE story_templates["action"]

\* base_description, lines 225-228
BaseDescription(template, scene_type) ==
    IF scene_type \in DOMAIN template THEN template[scene_type]
    ELSE "The story continues to unfold"

\* generate_story, lines 186-187, 217-230, after its analyze_prompt call of
\* line 171: the description of scene i of a story of num_scenes scenes
DescribeScene ==
    /\ an_pc = "done"
    /\ raw_prompt.type = "str"
    /\ \E n \in StructuredSceneCounts, theme \in (IF analysis.themes # <<>>
                                                  THEN Range(analysis.themes)
                                                  ELSE {"The plot"}) :
        \E i \in 0..(n - 1) :
            LET template == StoryTemplate(analysis.primary_genre)
                scene_type == SceneType(i, n)
            IN  description' =
                    [scene_type |-> scene_type,
                     text |-> <<BaseDescription(template, scene_type), " as ">>
                              \o raw_prompt.val
                              \o <<" develops further. ", theme,
                                   " becomes central to the narrative.">>]
    /\ an_pc' = "described"
    /\ UNCHANGED <<raw_prompt, an_words, analysis, genre_arg, profile, dl_args, dl_text>>
    /\ UNCHANGED nonAnalyzeVars

AnalyzeNext ==
    \/ AnalyzeRaises
    \/ AnalyzeTokenize
    \/ AnalyzeReturn
    \/ DescribeScene
    \/ TraitsRaise
    \/ TraitsReturn
    \/ EnhanceDialogue

SpecAnalyze == AnalyzeInit /\ [][AnalyzeNext]_vars

----------------------------------------------------------------------------
(* layout_engine.create_manga_pdf / create_manga_cbz and the saving of a     *)
(* panel image, called one after the other in one process                   *)
(*                                                                          *)
(* Lengths are in tenths of a point.  A file of outputs/temp is             *)
(* [name, by]: its name and the number of the call that copied it.          *)

MaxPanels == 3
MaxCalls == 2
MaxClock == 1

\* reportlab.lib.pagesizes.A4 = (595.27, 841.89) points
PageWidth == 5953
PageHeight == 8419

Titles == {<<"m">>, <<"m", " ", "m">>, <<"m", "_", "m">>}

\* title.replace(' ', '_')
ReplaceSpaces(t) == [k \in DOMAIN t |-> IF t[k] = " " THEN "_" ELSE t[k]]

\* f"{title.replace(' ', '_')}_{timestamp}.pdf" (.cbz), f"panel_{timestamp}.png"
OutputPath(stem, timestamp, ext) == [stem |-> stem, timestamp |-> timestamp, ext |-> ext]

\* the decimal digits of i, and f"{i:03d}"
RECURSIVE Digits(_)
Digits(i) == IF i < 10 THEN <<i>> ELSE Digits(i \div 10) \o <<i % 10>>

Pad3(i) == LET d == Digits(i) IN [k \in 1..(3 - Len(d)) |-> 0] \o d

\* panel.get("path"): the path of a file that exists, of one that does not,
\* or None when the record has no "path".
PanelPaths == {"a.png", "tall.png", "gone.png", "None"}

PathExists_always(path) == TRUE

\* os.path.exists(panel_path)
PathExists(path) == path \in {"a.png", "tall.png"}

\* the records a pdf export reads (path, number of dialogue lines) and the
\* records a cbz export reads (path)
PanelRecords(kind) ==
    {r \in [path : PanelPaths, lines : {0, 2}] :
        /\ r.lines = 0 \/ (kind = "pdf" /\ PathExists(r.path))
        /\ r.path = "tall.png" => (kind = "pdf" /\ r.lines = 2)}

\* img.size: a.png is a panel of panel_generator.py (width, height = 800, 600),
\* tall.png an image of 500 x 690 pixels
ImageSize(path) ==
    IF path = "tall.png" THEN [width |-> 500, height |-> 690]
    ELSE [width |-> 800, height |-> 600]

\* new_height: the image height scaled to the page width less the margins
NewHeight(img_width, img_height) == (img_height * (PageWidth - 1000)) \div img_width

ExportInit ==
    /\ StoryIdle
    /\ PanelIdle
    /\ AnalyzeIdle
    /\ HttpIdle
    /\ UtilIdle
    /\ ex_pc = "idle"
    /\ ex_call = NoCall
    /\ ex_panels = <<>>
    /\ clock = 0
    /\ temp_dir = NoTempDir
    /\ zip_entries = {}
    /\ pdf = NoCanvas
    /\ returned = <<>>

\* a second passes
Tick ==
    /\ ex_pc # "off"
    /\ clock < MaxClock
    /\ clock' = clock + 1
    /\ UNCHANGED <<ex_pc, ex_call, ex_panels, temp_dir, zip_entries, pdf, returned>>
    /\ UNCHANGED nonExportVars

CanCall == ex_pc \in {"idle", "returned", "raised"} /\ ex_call.no < MaxCalls

\* generate_manga_panel, lines 98-105 (the drawing is left out)
SavePanel ==
    /\ CanCall
    /\ LET path == OutputPath(<<"p", "a", "n", "e", "l">>, clock, "png")
       IN  /\ ex_call' = [no |-> ex_call.no + 1, kind |-> "panel", title |-> <<>>, path |-> path]
           /\ returned' = Append(returned, path)
    /\ ex_pc' = "returned"
    /\ ex_panels' = <<>>
    /\ zip_entries' = {}
    /\ pdf' = NoCanvas
    /\ UNCHANGED <<clock, temp_dir>>
    /\ UNCHANGED nonExportVars

\* create_manga_pdf, lines 25-41
StartPdf ==
    /\ CanCall
    /\ \E title \in Titles :
        /\ ex_call' = [no |-> ex_call.no + 1, kind |-> "pdf", title |-> title,
                       path |-> OutputPath(ReplaceSpaces(title), clock, "pdf")]
        /\ pdf' = [title |-> title, page |-> 1, y_position |-> PageHeight - 1000,
                   images |-> <<>>]
    /\ ex_pc' = "loop"
    /\ ex_panels' = <<>>
    /\ zip_entries' = {}
    /\ UNCHANGED <<clock, temp_dir, returned>>
    /\ UNCHANGED nonExportVars

\* create_manga_cbz, lines 99-108
StartCbz ==
    /\ CanCall
    /\ \E title \in Titles :
        ex_call' = [no |-> ex_call.no + 1, kind |-> "cbz", title |-> title,
                    path |-> OutputPath(ReplaceSpaces(title), clock, "cbz")]
    /\ temp_dir' = [temp_dir EXCEPT !.exists = TRUE]
    /\ ex_pc' = "loop"
    /\ ex_panels' = <<>>
    /\ zip_entries' = {}
    /\ pdf' = NoCanvas
    /\ UNCHANGED <<clock, returned>>
    /\ UNCHANGED nonExportVars

\* os.path.exists(None) raises TypeError, in either loop; what the call has
\* written so far stays where it is.
PanelPathRaises ==
    /\ ex_pc = "loop"
    /\ Len(ex_panels) < MaxPanels
    /\ ex_panels' = Append(ex_panels, [path |-> "None", lines |-> 0])
    /\ ex_pc' = "raised"
    /\ UNCHANGED <<ex_call, clock, temp_dir, zip_entries, pdf, returned>>
    /\ UNCHANGED nonExportVars

\* create_manga_pdf, lines 42-80: one iteration of the loop
PdfPanel ==
    /\ ex_pc = "loop"
    /\ ex_call.kind = "pdf"
    /\ Len(ex_panels) < MaxPanels
    /\ \E panel \in PanelRecords("pdf") :
        /\ panel.path # "None"
        /\ ex_panels' = Append(ex_panels, panel)
        /\ IF ~PathExists(panel.path)
           THEN pdf' = pdf
           ELSE LET new_height == NewHeight(ImageSize(panel.path).width,
                                              ImageSize(panel.path).height)
                    turn1 == pdf.y_position - new_height < 500
                    page1 == IF turn1 THEN pdf.page + 1 ELSE pdf.page
                    y1 == IF turn1 THEN PageHeight - 500 ELSE pdf.y_position
                    dialogue_y == (y1 - new_height - 200) - 150 * panel.lines
                    y2 == dialogue_y - 200
                    turn2 == y2 < 500
                IN  pdf' = [pdf EXCEPT
                        !.images = Append(@, [index |-> Len(ex_panels), page |-> page1,
                                              bottom |-> y1 - new_height,
                                              lines |-> panel.lines]),
                        !.page = IF turn2 THEN page1 + 1 ELSE page1,
                        !.y_position = IF turn2 THEN PageHeight - 500 ELSE y2]
    /\ UNCHANGED <<ex_pc, ex_call, clock, temp_dir, zip_entries, returned>>
    /\ UNCHANGED nonExportVars

\* create_manga_pdf, lines 83-85: c.save(); return output_path
PdfSave ==
    /\ ex_pc = "loop"
    /\ ex_call.kind = "pdf"
    /\ ex_pc' = "returned"
    /\ returned' = Append(returned, ex_call.path)
    /\ UNCHANGED <<ex_call, ex_panels, clock, temp_dir, zip_entries, pdf>>
    /\ UNCHANGED nonExportVars

\* create_manga_cbz, lines 111-118: one iteration of the loop; shutil.copy
\* replaces a file of the same name
CbzPanel ==
    /\ ex_pc = "loop"
    /\ ex_call.kind = "cbz"
    /\ Len(ex_panels) < MaxPanels
    /\ \E panel \in PanelRecords("cbz") :
        /\ panel.path # "None"
        /\ ex_panels' = Append(ex_panels, panel)
        /\ IF ~PathExists(panel.path)
           THEN temp_dir' = temp_dir
           ELSE LET name == Pad3(Len(ex_panels))
                IN  temp_dir' = [temp_dir EXCEPT !.files =
                        {f \in @ : f.name # name} \cup {[name |-> name, by |-> ex_call.no]}]
    /\ UNCHANGED <<ex_pc, ex_call, clock, zip_entries, pdf, returned>>
    /\ UNCHANGED nonExportVars

\* create_manga_cbz, lines 121-125: every file os.walk finds in outputs/temp
CbzZip ==
    /\ ex_pc = "loop"
    /\ ex_call.kind = "cbz"
    /\ zip_entries' = temp_dir.files
    /\ ex_pc' = "zipped"
    /\ UNCHANGED <<ex_call, ex_panels, clock, temp_dir, pdf, returned>>
    /\ UNCHANGED nonExportVars

\* create_manga_cbz, lines 128-130: shutil.rmtree(temp_dir); return output_path
CbzReturn ==
    /\ ex_pc = "zipped"
    /\ temp_dir' = NoTempDir
    /\ ex_pc' = "returned"
    /\ returned' = Append(returned, ex_call.path)
    /\ UNCHANGED <<ex_call, ex_panels, clock, zip_entries, pdf>>
    /\ UNCHANGED nonExportVars

ExportNext ==
    \/ Tick
    \/ SavePanel
    \/ StartPdf
    \/ StartCbz
    \/ PanelPathRaises
    \/ PdfPanel
    \/ PdfSave
    \/ CbzPanel
    \/ CbzZip
    \/ CbzReturn

SpecExport == ExportInit /\ [][ExportNext]_vars

----------------------------------------------------------------------------
(* The HTTP handlers: those of app.py and those of the blueprints routes/*  *)
(*                                                                          *)
(* A request is its route, whether it carries a JSON body and the fields of *)
(* that object; the generator or exporter the handler calls may return or   *)
(* raise.                                                                   *)

BodyFields == {"prompt", "characters", "panels", "title", "scene"}

AppRoutes == {"app.generate_story", "app.generate_panel", "app.export_pdf"}

BlueprintRoutes == {"story_bp.create_story", "export_bp.export_pdf",
                    "export_bp.export_cbz", "generate_bp.create_panel"}

\* the field the blueprint handler insists on
RequiredField(route) ==
    CASE route = "story_bp.create_story"    -> "prompt"
      [] route = "generate_bp.create_panel" -> "scene"
      [] OTHER                              -> "panels"

HttpInit ==
    /\ StoryIdle
    /\ PanelIdle
    /\ AnalyzeIdle
    /\ ExportIdle
    /\ UtilIdle
    /\ http_pc = "received"
    /\ \E route \in AppRoutes \cup BlueprintRoutes, fields \in SUBSET BodyFields :
        \/ request = [route |-> route, json |-> TRUE, fields |-> fields]
        \/ fields = {} /\ request = [route |-> route, json |-> FALSE, fields |-> {}]
    /\ service = "not_called"
    /\ response = NoResponse

\* app.py generate_story: request.get_json() raises without a JSON body,
\* every field has a default, any exception is answered with 500
AppGenerateStory ==
    /\ http_pc = "received"
    /\ request.route = "app.generate_story"
    /\ IF ~request.json
       THEN /\ service' = "not_called"
            /\ response' = [status |-> 500, keys |-> {"success", "error"}]
       ELSE \E outcome \in {"returned", "raised"} :
            /\ service' = outcome
            /\ response' = IF outcome = "returned"
                           THEN [status |-> 200, keys |-> {"success", "story", "unhinged"}]
                           ELSE [status |-> 500, keys |-> {"success", "error"}]
    /\ http_pc' = "responded"
    /\ UNCHANGED request
    /\ UNCHANGED nonHttpVars

\* app.py generate_panel: the except clause saves an error panel and answers
\* without a status code, that is with 200
AppGeneratePanel ==
    /\ http_pc = "received"
    /\ request.route = "app.generate_panel"
    /\ IF ~request.json
       THEN /\ service' = "not_called"
            /\ response' = [status |-> 200, keys |-> {"success", "panel_path", "error"}]
       ELSE \E outcome \in {"returned", "raised"} :
            /\ service' = outcome
            /\ response' = IF outcome = "returned"
                           THEN [status |-> 200, keys |-> {"success", "panel_path"}]
                           ELSE [status |-> 200, keys |-> {"success", "panel_path", "error"}]
    /\ http_pc' = "responded"
    /\ UNCHANGED request
    /\ UNCHANGED nonHttpVars

\* app.py export_pdf: the request body is not read; the panels are globbed
\* from outputs/ and an exception reaches the 500 error handler
AppExportPdf ==
    /\ http_pc = "received"
    /\ request.route = "app.export_pdf"
    /\ \E outcome \in {"returned", "raised"} :
        /\ service' = outcome
        /\ response' = IF outcome = "returned"
                       THEN [status |-> 200, keys |-> {"pdf_path"}]
                       ELSE [status |-> 500, keys |-> {"error"}]
    /\ http_pc' = "responded"
    /\ UNCHANGED request
    /\ UNCHANGED nonHttpVars

\* routes/story.py, routes/export.py, routes/generate.py:
\* if not data or '<field>' not in data: 400; except Exception: 500.
\* request.json without a JSON body is None or, with newer Flask, a 415 error.
BlueprintHandler ==
    /\ http_pc = "received"
    /\ request.route \in BlueprintRoutes
    /\ IF request.fields = {} \/ RequiredField(request.route) \notin request.fields
       THEN /\ service' = "not_called"
            /\ \E status \in IF request.json THEN {400} ELSE {400, 415} :
                   response' = [status |-> status, keys |-> {"error"}]
       ELSE \E outcome \in {"returned", "raised"} :
            /\ service' = outcome
            /\ response' = IF outcome = "returned"
                           THEN [status |-> 200, keys |->
                                    {"status",
                                     CASE request.route = "story_bp.create_story" -> "scenes"
                                       [] request.route = "export_bp.export_pdf" -> "pdf_path"
                                       [] request.route = "export_bp.export_cbz" -> "cbz_path"
                                       [] OTHER -> "panel_path"}]
                           ELSE [status |-> 500, keys |-> {"error"}]
    /\ http_pc' = "responded"
    /\ UNCHANGED request
    /\ UNCHANGED nonHttpVars

HttpNext ==
    \/ AppGenerateStory
    \/ AppGeneratePanel
    \/ AppExportPdf
    \/ BlueprintHandler

SpecHttp == HttpInit /\ [][HttpNext]_vars

----------------------------------------------------------------------------
(* EnhancedStoryGenerator.generate_story_metadata, as                       *)
(* _generate_enhanced_story_with_nlp calls it (story_generator.py line 151) *)
(*                                                                          *)
(* A scene is the number of its dialogue lines.  Numbers rounded to one     *)
(* decimal are in tenths.  The entries computed from the prompt alone       *)
(* (primary_genre, detected_themes, story_sentiment, prompt_analysis) and   *)
(* the timestamp are left out.                                              *)

MaxMetaRoster == 5

RECURSIVE SumSeq(_)
SumSeq(q) == IF q = <<>> THEN 0 ELSE Head(q) + SumSeq(Tail(q))

\* the scenes generate_story returns: 8..12 scenes of 2..4 dialogue lines; the
\* metadata does not depend on their order, so one list per multiset
MetadataScenes ==
    {[k \in 1..n |-> IF k <= a THEN 2 ELSE IF k <= a + b THEN 3 ELSE 4] :
        <<n, a, b>> \in {t \in StructuredSceneCounts \X (0..12) \X (0..12) :
                            t[2] + t[3] <= t[1]}}

MetadataRosters == {[k \in 1..m |-> <<"a">>] : m \in 0..MaxMetaRoster}

\* round(total / count, 1) in tenths: the quotient is exact in binary
\* whenever it lies half-way, so ties go to the even digit
RoundTenths(total, count) ==
    LET q == (10 * total) \div count
        r == (10 * total) % count
    IN  IF 2 * r < count THEN q
        ELSE IF 2 * r > count THEN q + 1
        ELSE IF q % 2 = 0 THEN q ELSE q + 1

ComplexityScore_uncapped(chars, sc) == Len(chars) * 2 + Len(sc) \div 3

\* min(10, len(characters) * 2 + len(scenes) // 3)
ComplexityScore(chars, sc) ==
    LET raw == Len(chars) * 2 + Len(sc) \div 3
    IN  IF raw < 10 THEN raw ELSE 10

\* the returned dict, lines 43-66
StoryMetadata(sc, chars) ==
    LET total_dialogue == SumSeq(sc)
    IN  [generation_method |-> "enhanced_nlp",
         scene_count |-> Len(sc),
         character_count |-> Len(chars),
         total_dialogue_lines |-> total_dialogue,
         avg_dialogue_per_scene |-> IF sc # <<>> THEN RoundTenths(total_dialogue, Len(sc))
                                    ELSE 0,
         estimated_reading_time_minutes |-> 15 * Len(sc),
         estimated_page_count |-> <<Len(sc), "-", Len(sc) * 2>>,
         complexity_score |-> ComplexityScore(chars, sc)]

MetadataInit ==
    /\ StoryIdle
    /\ PanelIdle
    /\ AnalyzeIdle
    /\ ExportIdle
    /\ HttpIdle
    /\ OverlapIdle
    /\ ProjectIdle
    /\ md_pc = "call"
    /\ md_scenes \in MetadataScenes
    /\ md_characters \in MetadataRosters
    /\ metadata = NoMetadata

GenerateStoryMetadata ==
    /\ md_pc = "call"
    /\ metadata' = StoryMetadata(md_scenes, md_characters)
    /\ md_pc' = "returned"
    /\ UNCHANGED <<md_scenes, md_characters>>
    /\ UNCHANGED nonMetadataVars

MetadataNext == GenerateStoryMetadata

SpecMetadata == MetadataInit /\ [][MetadataNext]_vars

----------------------------------------------------------------------------
(* Two create_manga_cbz calls that overlap in time (two request threads, or *)
(* two server processes, with the same working directory).  Both use        *)
(* outputs/temp; their file operations interleave.                          *)

Procs == {1, 2}

\* create_manga_cbz, lines 99-108: os.makedirs(temp_dir, exist_ok=True)
OverlapStart(p) ==
    /\ cbz_calls[p].pc = "idle"
    /\ cbz_calls' = [cbz_calls EXCEPT ![p].pc = "loop"]
    /\ temp_dir' = [temp_dir EXCEPT !.exists = TRUE]
    /\ UNCHANGED nonOverlapVars

\* lines 111-118: one iteration of the loop; shutil.copy raises
\* FileNotFoundError when outputs/temp is gone
OverlapCopy(p) ==
    /\ cbz_calls[p].pc = "loop"
    /\ Len(cbz_calls[p].panels) < MaxPanels
    /\ \E path \in {"a.png", "gone.png"} :
        LET name == Pad3(Len(cbz_calls[p].panels))
            panels == Append(cbz_calls[p].panels, [path |-> path, lines |-> 0])
        IN  IF ~PathExists(path)
            THEN /\ cbz_calls' = [cbz_calls EXCEPT ![p].panels = panels]
                 /\ temp_dir' = temp_dir
            ELSE IF ~temp_dir.exists
            THEN /\ cbz_calls' = [cbz_calls EXCEPT ![p].panels = panels, ![p].pc = "raised"]
                 /\ temp_dir' = temp_dir
            ELSE /\ cbz_calls' = [cbz_calls EXCEPT ![p].panels = panels]
                 /\ temp_dir' = [temp_dir EXCEPT !.files =
                        {f \in @ : f.name # name} \cup {[name |-> name, by |-> p]}]
    /\ UNCHANGED nonOverlapVars

\* lines 121-122: os.walk lists the files of outputs/temp (none when the
\* directory is gone)
OverlapWalk(p) ==
    /\ cbz_calls[p].pc = "loop"
    /\ cbz_calls' = [cbz_calls EXCEPT ![p].pc = "listed",
                                      ![p].listed = {f.name : f \in temp_dir.files}]
    /\ temp_dir' = temp_dir
    /\ UNCHANGED nonOverlapVars

\* lines 123-125: zipf.write reads each listed file as it is now, and raises
\* FileNotFoundError for one that is gone
OverlapWrite(p) ==
    /\ cbz_calls[p].pc = "listed"
    /\ IF cbz_calls[p].listed \subseteq {f.name : f \in temp_dir.files}
       THEN cbz_calls' = [cbz_calls EXCEPT ![p].pc = "zipped",
                             ![p].zip = {f \in temp_dir.files : f.name \in cbz_calls[p].listed}]
       ELSE cbz_calls' = [cbz_calls EXCEPT ![p].pc = "raised"]
    /\ temp_dir' = temp_dir
    /\ UNCHANGED nonOverlapVars

\* lines 128-130: shutil.rmtree(temp_dir) raises FileNotFoundError when the
\* directory is gone; return output_path
OverlapReturn(p) ==
    /\ cbz_calls[p].pc = "zipped"
    /\ IF temp_dir.exists
       THEN /\ temp_dir' = NoTempDir
            /\ cbz_calls' = [cbz_calls EXCEPT ![p].pc = "returned"]
       ELSE /\ temp_dir' = temp_dir
            /\ cbz_calls' = [cbz_calls EXCEPT ![p].pc = "raised"]
    /\ UNCHANGED nonOverlapVars

OverlapInit ==
    /\ StoryIdle
    /\ PanelIdle
    /\ AnalyzeIdle
    /\ ExportIdle
    /\ HttpIdle
    /\ MetadataIdle
    /\ ProjectIdle
    /\ cbz_calls = [p \in Procs |-> [NoCbzCall EXCEPT !.pc = "idle"]]

OverlapNext ==
    \E p \in Procs :
        \/ OverlapStart(p)
        \/ OverlapCopy(p)
        \/ OverlapWalk(p)
        \/ OverlapWrite(p)
        \/ OverlapReturn(p)

SpecOverlap == OverlapInit /\ [][OverlapNext]_vars

----------------------------------------------------------------------------
(* utils.save_project_metadata / load_project_metadata on one output        *)
(* directory                                                                *)
(*                                                                          *)
(* A file is [name, metadata]; names and ids are sequences of characters,   *)
(* with ".json" as one piece.  The created_at entry is left out.            *)

MaxSaves == 3

\* ids of the shape generate_unique_id gives: f"{int(time.time())}_{os.getpid()}"
ProjectIds == {<<"5", "_", "1">>, <<"1", "5", "_", "1">>, <<"6", "_", "1">>}

ProjectTitles == {<<"m">>, <<"m", "/", "m">>}

\* the scenes argument: a list of scene data
ProjectScenes == {<<>>, <<[scene_id |-> 1]>>}

invalid_chars == {"<", ">", ":", "\"", "/", "\\", "|", "?", "*"}

sanitize_filename(filename) ==
    [k \in DOMAIN filename |-> IF filename[k] \in invalid_chars THEN "_" ELSE filename[k]]

\* f"{sanitize_filename(title)}_{project_id}.json"
MetadataFilename(title, project_id) ==
    sanitize_filename(title) \o <<"_">> \o project_id \o <<".json">>

\* str.endswith
EndsWith(str, suffix) ==
    /\ Len(suffix) <= Len(str)
    /\ SubSeq(str, Len(str) - Len(suffix) + 1, Len(str)) = suffix

NoProjectMetadata == [project_id |-> <<>>, title |-> <<>>, scenes |-> <<>>]

ProjectInit ==
    /\ StoryIdle
    /\ PanelIdle
    /\ AnalyzeIdle
    /\ ExportIdle
    /\ HttpIdle
    /\ MetadataIdle
    /\ OverlapIdle
    /\ project_files = {}
    /\ project_saved = [i \in ProjectIds |-> NoProjectMetadata]
    /\ project_call = NoProjectCall

\* save_project_metadata, lines 48-65; open(file_path, 'w') replaces a file
\* of the same name
SaveProjectMetadata ==
    /\ project_call.no < MaxSaves
    /\ \E project_id \in ProjectIds, title \in ProjectTitles, sc \in ProjectScenes :
        LET md == [project_id |-> project_id, title |-> title, scenes |-> sc]
            filename == MetadataFilename(title, project_id)
        IN  /\ project_files' = {f \in project_files : f.name # filename}
                                    \cup {[name |-> filename, metadata |-> md]}
            /\ project_saved' = [project_saved EXCEPT ![project_id] = md]
            /\ project_call' = [no |-> project_call.no + 1, op |-> "save",
                                project_id |-> project_id, result |-> filename]
    /\ UNCHANGED nonProjectVars

\* load_project_metadata, lines 79-85: the first name of os.listdir, whose
\* order is arbitrary, that ends with f"{project_id}.json"; os.listdir raises
\* when no save has created the directory
LoadProjectMetadata ==
    /\ project_call.op # "load"
    /\ \E project_id \in ProjectIds :
        LET matching == {f \in project_files : EndsWith(f.name, project_id \o <<".json">>)}
        IN  \E res \in (IF project_call.no = 0 THEN {"FileNotFoundError"}
                         ELSE IF matching = {} THEN {"None"}
                         ELSE {f.metadata : f \in matching}) :
                project_call' = [project_call EXCEPT !.op = "load",
                                                     !.project_id = project_id,
                                                     !.result = res]
    /\ UNCHANGED <<project_files, project_saved>>
    /\ UNCHANGED nonProjectVars

ProjectNext ==
    \/ SaveProjectMetadata
    \/ LoadProjectMetadata

SpecProject == ProjectInit /\ [][ProjectNext]_vars

----------------------------------------------------------------------------
(* Claims C1 - C10 *)

\* The empty list is the one input that is no roster (a story has a non-empty
\* sequence of character names).
NonEmptyInput == ~(in_characters.type = "list" /\ in_characters.val = <<>>)

\* C1: with unhinged = false, for every prompt and every characters input of
\* the declared type, generate_manga_story returns a story whose scenes list
\* has between 8 and 12 entries.
C1_StructuredSceneCount ==
    (pc = "done" /\ ~unhinged /\ TypedInput)
        => (result = "returned" /\ Len(scenes) >= 8 /\ Len(scenes) <= 12)

C1_Witness ==
    /\ pc = "done" /\ ~unhinged /\ result = "returned"
    /\ in_characters.type = "list" /\ Len(in_characters.val) = 2
    /\ TypedInput
    /\ Len(scenes) = 12

\* C2 (as claimed): in every returned story, on every path, the scene at
\* 0-based position k has scene_id k + 1.
C2_SceneIdsContiguous ==
    result = "returned" => \A k \in DOMAIN scenes : scenes[k].scene_id = k

\* C3 (as claimed): with unhinged = false, every dialogue line of the returned
\* story is spoken by an element of the story's characters list.
C3_SpeakersInStoryCharacters ==
    (result = "returned" /\ ~unhinged) => speakers \subseteq Range(story.characters)

\* C4 (as claimed): in the stories of the local unhinged generators every
\* dialogue line is spoken by a name of the characters list given to them.
C4_LocalSpeakersFromRoster ==
    builder \in {"fallback", "edgy"} =>
        /\ speakers \subseteq Range(characters)
        /\ Speakers(dialogue) \subseteq Range(characters)

\* C5: with unhinged = true, no credential and a roster that is not the empty
\* list, generate_manga_story does not raise and returns a locally built
\* story of 10 to 15 scenes, 12 to 15 when the extreme fallback built it.
C5_NoCredentialLocalStory ==
    (pc = "done" /\ unhinged /\ ~api_key /\ NonEmptyInput) =>
        /\ result = "returned"
        /\ builder \in {"fallback", "edgy"}
        /\ Len(scenes) >= 10 /\ Len(scenes) <= 15
        /\ builder = "fallback" => Len(scenes) >= 12

C5_Witness ==
    /\ pc = "done" /\ unhinged /\ ~api_key /\ NonEmptyInput
    /\ result = "returned" /\ builder = "fallback" /\ Len(scenes) = 15

\* The remote call failed: an exception inside the try block, or an answer
\* that is not the object asked for (a key or a description missing).
RemoteCallFailed ==
    \/ remote = "failed"
    \/ /\ remote = "object"
       /\ \/ ~(RemoteKeys \subseteq remote_story.fields)
          \/ \E k \in DOMAIN scenes : ~scenes[k].has_description

\* C6 (as claimed): with unhinged = true, whenever the remote call fails in
\* any way, generate_manga_story returns a locally generated story and no
\* exception reaches the caller.
C6_RemoteFailureFallsBack ==
    (pc = "done" /\ unhinged /\ NonEmptyInput /\ RemoteCallFailed) =>
        (result = "returned" /\ builder \in {"fallback", "edgy"})

ClientEnded == client \in {"returned_remote", "returned_fallback", "raised"}

C8_StoryHasAllFields ==
    result = "returned" =>
        {"title", "summary", "scenes", "characters", "metadata"} \subseteq story.fields

PassthroughCase ==
    /\ panel_pc = "done"
    /\ panel_entry = "generate_panel_description"
    /\ (~api_key \/ panel_remote \in PanelFailures)

\* C9 (as claimed): generate_panel_description returns the original
\* scene_description unmodified when credentials are absent or the call fails.
C9_PassthroughUnmodified == PassthroughCase => panel_text = scene_description

\* C9 (amended): when credentials are absent or the call fails,
\* generate_panel_description returns the original scene_description with the
\* fixed sentence "A dark, twisted manga panel showing: " put in front of it.
C9_PassthroughPrefixed ==
    PassthroughCase =>
        /\ Len(panel_text) = Len(scene_description) + 1
        /\ Head(panel_text) = "A dark, twisted manga panel showing: "
        /\ Tail(panel_text) = scene_description

C9_Witness ==
    /\ PassthroughCase /\ api_key /\ panel_remote = "timeout"
    /\ Len(scene_description) = MaxDescLen

\* The roster C10 describes: strings split on commas and trimmed, an absent
\* or empty input replaced by the fixed 2-element roster.
C10_Roster ==
    IF in_characters.type = "none" \/ in_characters.val = <<>>
    THEN DefaultRoster
    ELSE IF in_characters.type = "str"
         THEN SplitAndStrip(in_characters.val)
         ELSE in_characters.val

\* C10 (as claimed): before any generation step the roster is the normalised
\* input, and it is never empty, for both values of unhinged.
C10_NormalizedNonEmptyRoster ==
    pc \notin {"start", "off"} => (characters = C10_Roster /\ characters # <<>>)

----------------------------------------------------------------------------
(* Claims C11 - C20 *)

NoGenreKeyword == \A k \in DOMAIN an_words : \A g \in Range(GenreOrder) : an_words[k] \notin genre_keywords[g]

NoEmotionKeyword == \A k \in DOMAIN an_words : \A e \in Range(EmotionOrder) : an_words[k] \notin emotion_keywords[e]

\* C11: analyze_prompt of a str never raises and returns a populated dict:
\* with no genre keyword among the tokens primary_genre is "drama", with no
\* emotion keyword primary_emotion is "neutral", and the empty prompt gives
\* drama, neutral, no themes and word_count 0.
C11_AnalyzeDefaults ==
    (an_pc # "off" /\ raw_prompt.type = "str") =>
        /\ an_pc # "raised"
        /\ an_pc = "done" =>
            /\ analysis.primary_genre \in Range(GenreOrder)
            /\ analysis.primary_emotion \in Range(EmotionOrder) \cup {"neutral"}
            /\ NoGenreKeyword => analysis.primary_genre = "drama"
            /\ NoEmotionKeyword => analysis.primary_emotion = "neutral"
            /\ raw_prompt.val = <<>> =>
                   analysis = [genres |-> <<>>, emotions |-> <<>>,
                               primary_genre |-> "drama", primary_emotion |-> "neutral",
                               themes |-> <<>>, word_count |-> 0]

C11_Witness ==
    /\ an_pc = "done"
    /\ raw_prompt.type = "str"
    /\ an_words # <<>>
    /\ NoGenreKeyword
    /\ NoEmotionKeyword
    /\ analysis.primary_genre = "drama"

\* the file system of the runs: a.png and tall.png are files, gone.png is not
ExistingPanels == {k \in DOMAIN ex_panels : ex_panels[k].path \in {"a.png", "tall.png"}}

MissingPanels == {k \in DOMAIN ex_panels : ex_panels[k].path = "gone.png"}

WellFormedPanels == \A k \in DOMAIN ex_panels : ex_panels[k].path # "None"

\* C13: the archive create_manga_cbz wrote for a panels list with N existing
\* image files has exactly N entries, named 000 .. N-1.
C13_CbzEntriesConsecutive ==
    (ex_pc = "returned" /\ ex_call.kind = "cbz") =>
        /\ Cardinality(zip_entries) = Cardinality(ExistingPanels)
        /\ {f.name : f \in zip_entries} =
               {<<0, 0, k>> : k \in 0..(Cardinality(ExistingPanels) - 1)}

\* C14: for a list of panel records with a path, the empty list and missing
\* files included, create_manga_pdf and create_manga_cbz return their output
\* path and never raise; a panel whose file is missing puts no image into the
\* output, and the PDF carries the title.
C14_ExportSkipsMissing ==
    /\ (ex_pc = "raised") => ~WellFormedPanels
    /\ (ex_pc = "returned" /\ ex_call.kind \in {"pdf", "cbz"}) =>
        /\ returned[Len(returned)] = ex_call.path
        /\ ex_call.kind = "pdf" =>
            /\ pdf.title = ex_call.title
            /\ {pdf.images[k].index + 1 : k \in DOMAIN pdf.images} = ExistingPanels
        /\ ex_call.kind = "cbz" =>
               \A k \in MissingPanels :
                   [name |-> <<0, 0, k - 1>>, by |-> ex_call.no] \notin zip_entries

C14_Witness ==
    /\ ex_pc = "returned"
    /\ ex_call.kind = "pdf"
    /\ pdf.title = <<"m", " ", "m">>
    /\ Len(pdf.images) = 1
    /\ \E k \in DOMAIN ex_panels : ex_panels[k].path = "gone.png"

\* C15: two calls that write an output file return distinct paths, whatever
\* their titles and however close in time they are.
C15_DistinctOutputPaths ==
    \A i, j \in DOMAIN returned : i # j => returned[i] # returned[j]

StoryRoutes == {"app.generate_story", "story_bp.create_story"}

ExportRoutes == {"app.export_pdf", "export_bp.export_pdf", "export_bp.export_cbz"}

\* C16: a story request without "prompt" and an export request without
\* "panels" are answered with 400 and an error message, and nothing is
\* generated or exported; every other failure is answered with 500 and an
\* error body.
C16_ValidationAndFailureStatus ==
    http_pc = "responded" =>
        LET invalid == \/ request.route \in StoryRoutes /\ "prompt" \notin request.fields
                       \/ request.route \in ExportRoutes /\ "panels" \notin request.fields
        IN  /\ invalid => /\ response.status = 400
                          /\ "error" \in response.keys
                          /\ service = "not_called"
            /\ (~invalid /\ service = "raised") => /\ response.status = 500
                                                   /\ "error" \in response.keys

\* C17: in a structured story of N scenes the scene at index 0 is "opening",
\* the one at index N-1 "resolution", any other at an index below 0.7 * N
\* "rising" and the remaining ones "climax".
C17_SceneTypesByPosition ==
    (pc = "done" /\ result = "returned" /\ builder = "structured") =>
        LET N == Len(scenes)
        IN  /\ N \in 8..12
            /\ \A i \in 0..(N - 1) :
                  LET type == scenes[i + 1].scene_type
                  IN  /\ i = 0 => type = "opening"
                      /\ i = N - 1 => type = "resolution"
                      /\ (i # 0 /\ i # N - 1 /\ 10 * i < 7 * N) => type = "rising"
                      /\ (i # 0 /\ i # N - 1 /\ 10 * i >= 7 * N) => type = "climax"

C17_Witness ==
    /\ pc = "done" /\ result = "returned" /\ builder = "structured"
    /\ Len(scenes) = 10
    /\ scenes[7].scene_type = "rising"
    /\ scenes[8].scene_type = "climax"
    /\ scenes[10].scene_type = "resolution"

\* the number of tokens that are keywords of entry `key` of a keyword table
MatchCount(table, key) ==
    Cardinality({k \in DOMAIN an_words : an_words[k] \in table[key]})

\* `primary` has the largest positive match count of the table, and every
\* key declared before it has a strictly smaller one
FirstMaximal(order, table, primary) ==
    \E p \in DOMAIN order :
        /\ order[p] = primary
        /\ MatchCount(table, primary) > 0
        /\ \A j \in DOMAIN order : MatchCount(table, order[j]) <= MatchCount(table, primary)
        /\ \A j \in 1..(p - 1) : MatchCount(table, order[j]) < MatchCount(table, primary)

\* C18: when some genre keyword occurs, primary_genre is a genre of maximal
\* match count, the one declared first in the keyword table among those that
\* tie; the same holds of primary_emotion and the emotion table.
C18_PrimaryIsFirstMaximal ==
    (an_pc = "done" /\ raw_prompt.type = "str") =>
        /\ ~NoGenreKeyword => FirstMaximal(GenreOrder, genre_keywords, analysis.primary_genre)
        /\ ~NoEmotionKeyword =>
               FirstMaximal(EmotionOrder, emotion_keywords, analysis.primary_emotion)

C18_Witness ==
    /\ an_pc = "done"
    /\ an_words = <<"grief", "furious", "conflict">>
    /\ analysis.primary_genre = "action"
    /\ analysis.primary_emotion = "angry"

\* C19: for every genre string, known or not, generate_character_traits
\* returns three pairwise distinct traits of that genre's table (of the
\* generic table for an unknown genre), with primary_trait the first of them.
C19_ThreeDistinctTraits ==
    (genre_arg # "" /\ an_pc # "traits") =>
        /\ an_pc = "done"
        /\ Len(profile.traits) = 3
        /\ \A a, b \in 1..3 : a # b => profile.traits[a] # profile.traits[b]
        /\ Range(profile.traits) \subseteq
               (IF genre_arg \in DOMAIN genre_traits THEN Range(genre_traits[genre_arg])
                ELSE {"interesting", "unique"})
        /\ profile.primary_trait = profile.traits[1]

\* C20: for traits holding both "witty" and "serious", the replacement of
\* every "!" by "." happens whenever the serious rule's own draw falls under
\* its threshold, whether or not the witty suffix was appended.
C20_TraitRulesIndependent ==
    (an_pc = "done" /\ {"witty", "serious"} \subseteq dl_args.character_traits
        /\ dl_args.hits.serious) => "!" \notin Range(dl_text)

----------------------------------------------------------------------------
(* Claims C21 - C30 *)

\* C21: in every scene the edgy builder and the client's fallback builder
\* build, opening and finale included, the second line of the exchange is
\* spoken by an element of characters[1:], or by characters[0] when the roster
\* has exactly one character.
C21_SecondSpeakerFromRoster ==
    (pc \in {"edgy_built", "fallback_built"}) =>
        dialogue[2].character \in
            (IF Len(characters) > 1 THEN Range(Tail(characters)) ELSE {characters[1]})

\* the positions of the tokens that qualify as themes: longer than 4
\* characters and not one of story, about, character
ThemePositions ==
    {k \in DOMAIN an_words :
        WordLength[an_words[k]] > 4 /\ an_words[k] \notin {"story", "about", "character"}}

\* C22: themes are the first 5 (or fewer) qualifying tokens in scan order,
\* repetitions kept, and word_count is the number of tokens of the prompt.
C22_ThemesFirstFive ==
    (an_pc = "done" /\ raw_prompt.type = "str") =>
        /\ Len(analysis.themes) =
               (IF Cardinality(ThemePositions) < 5 THEN Cardinality(ThemePositions) ELSE 5)
        /\ \A j \in DOMAIN analysis.themes :
               \E k \in ThemePositions :
                   /\ Cardinality({q \in ThemePositions : q <= k}) = j
                   /\ analysis.themes[j] = an_words[k]
        /\ analysis.word_count =
               Cardinality({k \in DOMAIN raw_prompt.val : raw_prompt.val[k] \notin {" ", "! "}})

C22_Witness ==
    /\ an_pc = "done"
    /\ raw_prompt.val = <<"magic", " ", "Dragon", " ", "story", " ", "magic", " ",
                          "Dragon", " ", "Dragon", " ", "magic">>
    /\ an_words = <<"magic", "dragon", "story", "magic", "dragon", "dragon", "magic">>
    /\ analysis.themes = <<"magic", "dragon", "magic", "dragon", "dragon">>
    /\ analysis.word_count = 7

\* C23: every image create_manga_pdf draws, and every dialogue row beneath
\* it, lies at or above the bottom margin (50 points) of its page.
C23_NothingBelowBottomMargin ==
    \A k \in DOMAIN pdf.images :
        /\ pdf.images[k].bottom >= 500
        /\ \A row \in 1..pdf.images[k].lines :
               (pdf.images[k].bottom - 200) - 150 * (row - 1) >= 500

\* C26: when the analyzer's primary genre has no entry in the story-template
\* table, the description of a scene starts with the sentence of the action
\* template for the scene's type.
C26_UntabledGenreUsesActionTemplate ==
    /\ \A g \in {"horror", "comedy", "drama", "sci-fi"} :
           /\ g \in Range(GenreOrder)
           /\ StoryTemplate(g)["rising"] = "The conflict escalates dramatically"
    /\ (an_pc = "described"
         /\ analysis.primary_genre \in {"horror", "comedy", "drama", "sci-fi"}) =>
            Head(description.text) =
                CASE description.scene_type = "opening" -> "A tense situation unfolds"
                  [] description.scene_type = "rising" -> "The conflict escalates dramatically"
                  [] description.scene_type = "climax" ->
                        "An intense battle determines the outcome"
                  [] description.scene_type = "resolution" ->
                        "The dust settles and consequences are revealed"

\* a prompt without a genre keyword: the default genre "drama"
C26_Witness ==
    /\ an_pc = "described"
    /\ NoGenreKeyword
    /\ analysis.primary_genre = "drama"
    /\ description.scene_type = "climax"
    /\ Head(description.text) = "An intense battle determines the outcome"

OwnCopies(p) ==
    {[name |-> Pad3(k - 1), by |-> p] :
        k \in {j \in DOMAIN cbz_calls[p].panels : cbz_calls[p].panels[j].path = "a.png"}}

\* C24: the step in which create_manga_cbz returns leaves no scratch
\* directory behind, and the archive written holds the images the call copied.
C24_CbzReturnsCleanWithCopies ==
    [][\A p \in Procs :
          (cbz_calls[p].pc = "zipped" /\ cbz_calls'[p].pc = "returned") =>
              (~temp_dir'.exists /\ OwnCopies(p) \subseteq cbz_calls'[p].zip)]_vars

\* C27: of two overlapping create_manga_cbz calls neither raises, and the
\* archive of each holds exactly the existing images of its own panels.
C27_OverlappingCallsIndependent ==
    \A p \in Procs :
        /\ cbz_calls[p].pc # "raised"
        /\ cbz_calls[p].pc = "returned" => cbz_calls[p].zip = OwnCopies(p)

\* C28: a create_manga_cbz call starts with an empty scratch directory, and
\* every entry of the archive it writes was copied by that call, whatever the
\* calls before it did.
C28_NoLeftoverEntries ==
    /\ (ex_call.kind = "cbz" /\ ex_pc = "loop" /\ ex_panels = <<>>) => temp_dir.files = {}
    /\ \A f \in zip_entries : f.by = ex_call.no

TypeRank(t) ==
    CASE t = "opening" -> 1 [] t = "rising" -> 2 [] t = "climax" -> 3
      [] t = "resolution" -> 4 [] OTHER -> 0

\* C29: the scene types of a finished structured story are one opening, then
\* rising scenes, then climax scenes, then one resolution: the order opening <
\* rising < climax < resolution is never reversed and each type occurs.
C29_SceneTypesInOrder ==
    (builder = "structured" /\ Len(scenes) = num_scenes) =>
        /\ num_scenes \in 8..12
        /\ \A k \in DOMAIN scenes : TypeRank(scenes[k].scene_type) \in 1..4
        /\ \A j, k \in DOMAIN scenes :
               j < k => TypeRank(scenes[j].scene_type) <= TypeRank(scenes[k].scene_type)
        /\ \A r \in 1..4 : \E k \in DOMAIN scenes : TypeRank(scenes[k].scene_type) = r
        /\ Cardinality({k \in DOMAIN scenes : scenes[k].scene_type = "opening"}) = 1
        /\ Cardinality({k \in DOMAIN scenes : scenes[k].scene_type = "resolution"}) = 1

\* a finished story of 8 scenes, the count with a single climax scene
C29_Witness ==
    /\ builder = "structured"
    /\ num_scenes = 8
    /\ Len(scenes) = 8
    /\ scenes[6].scene_type = "rising"
    /\ scenes[7].scene_type = "climax"
    /\ result = "returned"

\* C30: load_project_metadata(id), after a save under that id, returns the
\* project_id, title and scenes of that save, whatever else was saved.
C30_MetadataRoundTrip ==
    (project_call.op = "load"
     /\ project_saved[project_call.project_id] # NoProjectMetadata) =>
        project_call.result = project_saved[project_call.project_id]

====
